---- MODULE Spec2Model ----
(***************************************************************************)
(* Cross-thread cookie-change subscription relay of                        *)
(* runtime/browser/android/net/xwalk_cookie_change_dispatcher_wrapper.cc.  *)
(*                                                                         *)
(* Two execution contexts: the client's (where AddCallbackFor* is called,  *)
(* where the handle is dropped and where SubscriptionWrapper::OnChanged    *)
(* runs) and the cookie store's (where NestedSubscription::Subscribe and   *)
(* NestedSubscription::OnChanged run).  Each context has a FIFO task queue.*)
(*                                                                         *)
(* Every Subscribe call creates one relay (NestedSubscription), one        *)
(* callback registration and one handle; the three share the index s of    *)
(* the call.  Hubs (SubscriptionWrapper) have their own index h.           *)
(***************************************************************************)
EXTENDS Integers, Sequences, FiniteSets, TLC

\* ---------------------------------------------------------------- bounds
MaxSubs == 2          \* Subscribe calls (relays / handles) in one run
MaxChanges == 2       \* cookie changes the store notifies of in one run
MaxOps == 4           \* Subscribe calls plus notified changes in one run

\* The (url, key) callers subscribe to, and the changes the store makes: of
\* the watched cookie for two causes, of another cookie under the watched url
\* and of a cookie under another url.
WatchedUrls == {"u1"}
WatchedNames == {"a"}
Changes ==
  {[url |-> "u1", name |-> "a", cause |-> "Overwrite"],
   [url |-> "u1", name |-> "a", cause |-> "Expired"],
   [url |-> "u1", name |-> "b", cause |-> "Overwrite"],
   [url |-> "u2", name |-> "a", cause |-> "Overwrite"]}

\* ------------------------------------------------------- program values
kByCookie == "kByCookie"
kByUrl == "kByUrl"
Modes == {kByCookie, kByUrl}

EmptyName == ""       \* the name AddCallbackForUrl passes, "ignored"
NoRelay == 0          \* a null scoped_refptr<NestedSubscription>
NullHandle == 0       \* a null unique_ptr<net::CookieChangeSubscription>
NoSubscription == 0   \* a null NestedSubscription::subscription_

ClientContext == "client"
StoreContext == "store"
NoContext == "none"   \* destroyed_on of a relay whose destructor has not run

VARIABLES
  hubs,            \* Seq of SubscriptionWrapper objects
  relays,          \* Seq of NestedSubscription objects (destroyed_on: the
                   \* context whose step ran the destructor)
  handles,         \* Seq of XWalkCookieChangeSubscription objects (caller-owned)
  dispatcher,      \* the store's change dispatcher: Seq of registrations
  storeQueue,      \* tasks posted to GetCookieStoreTaskRunner()
  clientQueue,     \* tasks posted to client_task_runner_
  lastCall,        \* the last call of the facade and the handle it returned
  nChanges,        \* number of cookie changes the store has notified of
  crashed,         \* a DCHECK has failed
  emitted,         \* history: per relay, the events the store handed to it
  delivered,       \* history: per callback, the invocations it received
  requested,       \* history: per Subscribe call, who called it and with what
  dropSeq          \* history: per handle, <<>> while the caller holds it and
                   \* then <<n>>, n the number of events its relay had been
                   \* handed when the handle was dropped

vars == <<hubs, relays, handles, dispatcher, storeQueue, clientQueue, lastCall,
          nChanges, crashed, emitted, delivered, requested, dropSeq>>

\* ------------------------------------------------------------- helpers
\* Mutant of PostTask: the task jumps the queue.
PostTask_Front(queue, task) == <<task>> \o queue

\* base::TaskRunner::PostTask: the task goes to the back of the queue.
PostTask(queue, task) == Append(queue, task)

\* base::CallbackList::Add: the callback goes to the back of the list.
CallbackListAdd(list, cb) == Append(list, cb)

\* Mutant of CallbackListRemove: the entry stays in the list.
CallbackListRemove_Stays(list, cb) == list

\* base::CallbackList::Subscription::~Subscription: the entry leaves the list.
CallbackListRemove(list, cb) == SelectSeq(list, LAMBDA c : c # cb)

\* base::CallbackList::empty.
CallbackListEmpty(list) == list = <<>>

\* ------------------------------------------- NestedSubscription lifetime
\* ~NestedSubscription run by a step on context ctx: the relay is gone and its
\* subscription_ member, if any, leaves the store's dispatcher.
DestroyRelay(rs, dp, r, ctx) ==
  [relays |-> [rs EXCEPT ![r].alive = FALSE, ![r].destroyed_on = ctx,
                         ![r].subscription_ = NoSubscription],
   dispatcher |-> IF rs[r].subscription_ = NoSubscription THEN dp
                  ELSE [dp EXCEPT ![rs[r].subscription_].registered = FALSE]]

\* Mutant of Release: the last release destroys the relay on the spot,
\* whatever context it runs on.
Release_Inline(rs, sq, dp, r, ctx) ==
  LET dec == [rs EXCEPT ![r].refs = @ - 1] IN
  IF dec[r].refs > 0 THEN [relays |-> dec, storeQueue |-> sq, dispatcher |-> dp]
  ELSE LET d == DestroyRelay(dec, dp, r, ctx) IN
       [relays |-> d.relays, storeQueue |-> sq, dispatcher |-> d.dispatcher]

\* base::RefCountedDeleteOnSequence<NestedSubscription>::Release from a step
\* running on context ctx: the last release destroys the relay inline on the
\* store's context and posts the destruction to it from anywhere else.
Release(rs, sq, dp, r, ctx) ==
  LET dec == [rs EXCEPT ![r].refs = @ - 1] IN
  IF dec[r].refs > 0 THEN [relays |-> dec, storeQueue |-> sq, dispatcher |-> dp]
  ELSE IF ctx = StoreContext
       THEN LET d == DestroyRelay(dec, dp, r, ctx) IN
            [relays |-> d.relays, storeQueue |-> sq, dispatcher |-> d.dispatcher]
       ELSE [relays |-> dec,
             storeQueue |-> PostTask(sq, [type |-> "DeleteSoon", relay |-> r]),
             dispatcher |-> dp]

\* Mutant of Create: the Subscribe task is posted twice, each holding a
\* reference.
Create_PostsTwice(mode, url, name, h, rs, sq) ==
  LET r == Len(rs) + 1
      task == [type |-> "Subscribe", relay |-> r, mode |-> mode, url |-> url,
               name |-> name] IN
  [relays |-> Append(rs, [subscription_wrapper_ |-> h,
                          client_task_runner_ |-> ClientContext,
                          subscription_ |-> NoSubscription,
                          refs |-> 3,
                          alive |-> TRUE,
                          destroyed_on |-> NoContext]),
   storeQueue |-> PostTask(PostTask(sq, task), task),
   relay |-> r]

\* NestedSubscription::Create: a relay bound to hub h by weak pointer, plus a
\* Subscribe task posted to the store's context.  One reference is returned
\* to the caller and one is held by the posted task.
Create(mode, url, name, h, rs, sq) ==
  LET r == Len(rs) + 1 IN
  [relays |-> Append(rs, [subscription_wrapper_ |-> h,
                          client_task_runner_ |-> ClientContext,
                          subscription_ |-> NoSubscription,
                          refs |-> 2,
                          alive |-> TRUE,
                          destroyed_on |-> NoContext]),
   storeQueue |-> PostTask(sq, [type |-> "Subscribe", relay |-> r,
                                mode |-> mode, url |-> url, name |-> name]),
   relay |-> r]

\* Mutant of Registration: the mode is not looked at, every registration is
\* key-scoped.
Registration_KeyScoped(mode, url, name, r) ==
  [kind |-> "cookie", url |-> url, name |-> name, callback |-> r,
   registered |-> TRUE]

\* The registration NestedSubscription::Subscribe makes with the store's
\* change dispatcher: key-scoped for kByCookie, URL-scoped (no name) for kByUrl.
\* The callback bound to it is NestedSubscription::OnChanged on relay r.
Registration(mode, url, name, r) ==
  IF mode = kByCookie
  THEN [kind |-> "cookie", url |-> url, name |-> name, callback |-> r,
        registered |-> TRUE]
  ELSE [kind |-> "url", url |-> url, callback |-> r, registered |-> TRUE]

\* NestedSubscription::Subscribe on relay r: registers with the store, keeps
\* the real subscription in subscription_; the bound callback holds a
\* reference to the relay.
NestedSubscribe(rs, dp, r, mode, url, name) ==
  [relays |-> [rs EXCEPT ![r].subscription_ = Len(dp) + 1, ![r].refs = @ + 1],
   dispatcher |-> Append(dp, Registration(mode, url, name, r))]

\* The store's matching of a change of cookie (url, name) against a
\* registration: a key-scoped one wants the url and the name, a URL-scoped
\* one the url alone.
Matches(reg, ev) ==
  IF reg.kind = "cookie" THEN reg.url = ev.url /\ reg.name = ev.name
  ELSE reg.url = ev.url

\* ------------------------------------------------- SubscriptionWrapper
\* SubscriptionWrapper::SubscriptionWrapper: no relay, an empty callback list;
\* the weak pointer factory makes weak pointers valid while alive.
NewSubscriptionWrapper ==
  [nested_subscription_ |-> NoRelay, callback_list_ |-> <<>>, alive |-> TRUE]

\* Whether the constructor hands the callback list a removal callback
\* (callback_list_.set_removal_callback(... OnUnsubscribe ...)): it does not.
RemovalCallbackIsSet == FALSE

\* One invocation of callback c by a step on context ctx, as the history
\* keeps it: the arguments, which event of which relay they come from, the
\* context, and whether the caller still held the callback's handle.
Invocation(c, t, ctx) ==
  [cookie |-> t.cookie, cause |-> t.cause, seq |-> t.seq, relay |-> t.relay,
   ctx |-> ctx, held |-> handles[c].held]

\* base::CallbackList::Notify run by a step on context ctx: every callback in
\* the list is invoked with the task's (cookie, cause).
Notify(list, t, ctx, dl) ==
  [c \in DOMAIN dl |->
     IF \E i \in 1..Len(list) : list[i] = c
     THEN Append(dl[c], Invocation(c, t, ctx))
     ELSE dl[c]]

\* Mutant of WrapperOnChanged: the callback given to Subscribe is run
\* directly, not through the callback list.
WrapperOnChanged_Direct(h, t, ctx, dl) ==
  Notify(<<hubs[h].nested_subscription_>>, t, ctx, dl)

\* SubscriptionWrapper::OnChanged on hub h.
WrapperOnChanged(h, t, ctx, dl) == Notify(hubs[h].callback_list_, t, ctx, dl)

\* The task NestedSubscription::OnChanged binds: SubscriptionWrapper::OnChanged
\* on the weak pointer, with the cookie and the cause it was given.
OnChangedTask(r, ev, seq) ==
  [wrapper |-> relays[r].subscription_wrapper_,
   cookie |-> [url |-> ev.url, name |-> ev.name], cause |-> ev.cause,
   seq |-> seq, relay |-> r]

\* Mutant of NestedOnChanged: the hub is called on the spot, on the store's
\* context, and nothing is posted.
NestedOnChanged_Inline(r, ev, seq, acc) ==
  [acc EXCEPT !.delivered =
     WrapperOnChanged(relays[r].subscription_wrapper_, OnChangedTask(r, ev, seq),
                      StoreContext, @)]

\* Mutant of NestedOnChanged: the task is posted twice.
NestedOnChanged_Twice(r, ev, seq, acc) ==
  [acc EXCEPT !.clientQueue =
     PostTask(PostTask(@, OnChangedTask(r, ev, seq)), OnChangedTask(r, ev, seq))]

\* NestedSubscription::OnChanged on relay r (store's context): posts the task
\* to the client's context; nothing is invoked here.
NestedOnChanged(r, ev, seq, acc) ==
  [acc EXCEPT !.clientQueue = PostTask(@, OnChangedTask(r, ev, seq))]

\* The store's dispatcher notifying its registrations of one change, in
\* registration order.
RECURSIVE DispatchChange(_, _, _)
DispatchChange(i, ev, acc) ==
  IF i > Len(dispatcher) THEN acc
  ELSE LET reg == dispatcher[i]
           r == reg.callback IN
       IF reg.registered /\ Matches(reg, ev)
       THEN DispatchChange(i + 1, ev,
              NestedOnChanged(r, ev, Len(acc.emitted[r]) + 1,
                              [acc EXCEPT !.emitted[r] = Append(@, ev)]))
       ELSE DispatchChange(i + 1, ev, acc)

\* DCHECK(callback_list_.empty()) of SubscriptionWrapper::Subscribe, in a build
\* with DCHECKs compiled in (dcheck_is_on) or out.
DcheckFails(hs, h, dcheck_is_on) ==
  dcheck_is_on /\ ~CallbackListEmpty(hs[h].callback_list_)

\* Mutant of Subscribe: the relay registers with the store during the call, on
\* the caller's context, besides posting its Subscribe task.
Subscribe_RegistersEarly(hs, h, mode, url, name, dcheck_is_on) ==
  LET c == Create(mode, url, name, h, relays, storeQueue)
      n == NestedSubscribe(c.relays, dispatcher, c.relay, mode, url, name)
  IN /\ hubs' = [hs EXCEPT ![h].nested_subscription_ = c.relay,
                           ![h].callback_list_ = CallbackListAdd(@, c.relay)]
     /\ relays' = n.relays
     /\ storeQueue' = c.storeQueue
     /\ dispatcher' = n.dispatcher
     /\ handles' = Append(handles, [list_ |-> h, held |-> TRUE])
     /\ emitted' = Append(emitted, <<>>)
     /\ delivered' = Append(delivered, <<>>)
     /\ dropSeq' = Append(dropSeq, <<>>)
     /\ UNCHANGED crashed

\* SubscriptionWrapper::Subscribe on hub h of hs: the DCHECK, then a new relay
\* assigned to nested_subscription_ (which releases the one held before), then
\* the callback added to the list and wrapped in the returned handle.
Subscribe(hs, h, mode, url, name, dcheck_is_on) ==
  IF DcheckFails(hs, h, dcheck_is_on)
  THEN /\ crashed' = TRUE
       /\ hubs' = hs
       /\ UNCHANGED <<relays, storeQueue, dispatcher, handles, emitted,
                      delivered, dropSeq>>
  ELSE LET c == Create(mode, url, name, h, relays, storeQueue)
           old == hs[h].nested_subscription_
           rel == IF old = NoRelay
                  THEN [relays |-> c.relays, storeQueue |-> c.storeQueue,
                        dispatcher |-> dispatcher]
                  ELSE Release(c.relays, c.storeQueue, dispatcher, old,
                               ClientContext)
       IN /\ hubs' = [hs EXCEPT ![h].nested_subscription_ = c.relay,
                                ![h].callback_list_ = CallbackListAdd(@, c.relay)]
          /\ relays' = rel.relays
          /\ storeQueue' = rel.storeQueue
          /\ dispatcher' = rel.dispatcher
          /\ handles' = Append(handles, [list_ |-> h, held |-> TRUE])
          /\ emitted' = Append(emitted, <<>>)
          /\ delivered' = Append(delivered, <<>>)
          /\ dropSeq' = Append(dropSeq, <<>>)
          /\ UNCHANGED crashed

\* SubscriptionWrapper::OnUnsubscribe on hub h: delete this.  The weak
\* pointers die with the hub and nested_subscription_ is released.
OnUnsubscribe(hs, h, rs, sq, dp) ==
  LET rel == IF hs[h].nested_subscription_ = NoRelay
             THEN [relays |-> rs, storeQueue |-> sq, dispatcher |-> dp]
             ELSE Release(rs, sq, dp, hs[h].nested_subscription_, ClientContext)
  IN [hubs |-> [hs EXCEPT ![h].alive = FALSE,
                          ![h].nested_subscription_ = NoRelay],
      relays |-> rel.relays, storeQueue |-> rel.storeQueue,
      dispatcher |-> rel.dispatcher]

\* ------------------------------------------------------------ the state
Init ==
  /\ hubs = <<>>
  /\ relays = <<>>
  /\ handles = <<>>
  /\ dispatcher = <<>>
  /\ storeQueue = <<>>
  /\ clientQueue = <<>>
  /\ lastCall = [call |-> "none", handle |-> NullHandle]
  /\ nChanges = 0
  /\ crashed = FALSE
  /\ emitted = <<>>
  /\ delivered = <<>>
  /\ requested = <<>>
  /\ dropSeq = <<>>

\* ---------------------------------------------------- client's context
\* XWalkCookieChangeDispatcherWrapper::AddCallbackForCookie.
AddCallbackForCookie(url, name, dcheck_is_on) ==
  /\ ~crashed
  /\ Len(relays) < MaxSubs
  /\ Len(relays) + nChanges < MaxOps
  /\ Subscribe(Append(hubs, NewSubscriptionWrapper), Len(hubs) + 1,
               kByCookie, url, name, dcheck_is_on)
  /\ lastCall' = [call |-> "AddCallbackForCookie", handle |-> Len(handles) + 1]
  /\ requested' = Append(requested, [call |-> "AddCallbackForCookie",
                                     url |-> url, name |-> name])
  /\ UNCHANGED <<clientQueue, nChanges>>

\* Mutant of AddCallbackForUrl: one hub serves every call; a new one is
\* allocated only when there is none yet.
AddCallbackForUrl_SharedHub(url, dcheck_is_on) ==
  /\ ~crashed
  /\ Len(relays) < MaxSubs
  /\ Len(relays) + nChanges < MaxOps
  /\ IF hubs = <<>>
     THEN Subscribe(Append(hubs, NewSubscriptionWrapper), 1, kByUrl, url,
                    EmptyName, dcheck_is_on)
     ELSE Subscribe(hubs, 1, kByUrl, url, EmptyName, dcheck_is_on)
  /\ lastCall' = [call |-> "AddCallbackForUrl", handle |-> Len(handles) + 1]
  /\ requested' = Append(requested, [call |-> "AddCallbackForUrl", url |-> url])
  /\ UNCHANGED <<clientQueue, nChanges>>

\* XWalkCookieChangeDispatcherWrapper::AddCallbackForUrl.
AddCallbackForUrl(url, dcheck_is_on) ==
  /\ ~crashed
  /\ Len(relays) < MaxSubs
  /\ Len(relays) + nChanges < MaxOps
  /\ Subscribe(Append(hubs, NewSubscriptionWrapper), Len(hubs) + 1,
               kByUrl, url, EmptyName, dcheck_is_on)
  /\ lastCall' = [call |-> "AddCallbackForUrl", handle |-> Len(handles) + 1]
  /\ requested' = Append(requested, [call |-> "AddCallbackForUrl", url |-> url])
  /\ UNCHANGED <<clientQueue, nChanges>>

\* Mutant of AddCallbackForAllChanges: implemented as a subscription to every
\* watched url.
AddCallbackForAllChanges_Subscribes ==
  /\ ~crashed
  /\ Len(relays) < MaxSubs
  /\ Len(relays) + nChanges < MaxOps
  /\ \E url \in WatchedUrls :
       /\ Subscribe(Append(hubs, NewSubscriptionWrapper), Len(hubs) + 1,
                    kByUrl, url, EmptyName, TRUE)
       /\ requested' = Append(requested, [call |-> "AddCallbackForAllChanges",
                                          url |-> url])
  /\ lastCall' = [call |-> "AddCallbackForAllChanges",
                  handle |-> Len(handles) + 1]
  /\ UNCHANGED <<clientQueue, nChanges>>

\* XWalkCookieChangeDispatcherWrapper::AddCallbackForAllChanges:
\* NOTIMPLEMENTED() and a null result.
AddCallbackForAllChanges ==
  /\ ~crashed
  /\ lastCall' = [call |-> "AddCallbackForAllChanges", handle |-> NullHandle]
  /\ UNCHANGED <<hubs, relays, handles, dispatcher, storeQueue, clientQueue,
                 nChanges, crashed, emitted, delivered, requested, dropSeq>>

\* Mutant of DropHandle: the drop also takes the relay's registration out of
\* the store's dispatcher, there and then on the client's context.
DropHandle_Unregisters(s) ==
  /\ ~crashed
  /\ handles[s].held
  /\ hubs' = [hubs EXCEPT ![handles[s].list_].callback_list_ =
                            CallbackListRemove(@, s)]
  /\ dispatcher' = [i \in DOMAIN dispatcher |->
                      IF dispatcher[i].callback = s
                      THEN [dispatcher[i] EXCEPT !.registered = FALSE]
                      ELSE dispatcher[i]]
  /\ dropSeq' = [dropSeq EXCEPT ![s] = <<Len(emitted[s])>>]
  /\ handles' = [handles EXCEPT ![s].held = FALSE]
  /\ UNCHANGED <<relays, storeQueue, clientQueue, lastCall, nChanges, crashed,
                 emitted, delivered, requested>>

\* Mutant of DropHandle: the relay is owned by the handle alone and is
\* destroyed with it, on the caller's context.
DropHandle_DeletesRelay(s) ==
  /\ ~crashed
  /\ handles[s].held
  /\ hubs' = [hubs EXCEPT ![handles[s].list_].callback_list_ =
                            CallbackListRemove(@, s)]
  /\ LET d == DestroyRelay(relays, dispatcher, s, ClientContext)
     IN relays' = d.relays /\ dispatcher' = d.dispatcher
  /\ dropSeq' = [dropSeq EXCEPT ![s] = <<Len(emitted[s])>>]
  /\ handles' = [handles EXCEPT ![s].held = FALSE]
  /\ UNCHANGED <<storeQueue, clientQueue, lastCall, nChanges, crashed,
                 emitted, delivered, requested>>

\* The caller destroys handle s (~XWalkCookieChangeSubscription): its
\* CallbackList subscription leaves the hub's list, and the list runs its
\* removal callback when it has one.
DropHandle(s) ==
  /\ ~crashed
  /\ handles[s].held
  /\ LET h == handles[s].list_
         hs == [hubs EXCEPT ![h].callback_list_ = CallbackListRemove(@, s)]
         un == IF RemovalCallbackIsSet
               THEN OnUnsubscribe(hs, h, relays, storeQueue, dispatcher)
               ELSE [hubs |-> hs, relays |-> relays, storeQueue |-> storeQueue,
                     dispatcher |-> dispatcher]
     IN /\ hubs' = un.hubs
        /\ relays' = un.relays
        /\ storeQueue' = un.storeQueue
        /\ dispatcher' = un.dispatcher
        /\ dropSeq' = [dropSeq EXCEPT ![s] = <<Len(emitted[s])>>]
  /\ handles' = [handles EXCEPT ![s].held = FALSE]
  /\ UNCHANGED <<clientQueue, lastCall, nChanges, crashed, emitted, delivered,
                 requested>>

\* Mutant of RunClientTask: the task is bound to the hub's address, not to a
\* weak pointer, and runs whether or not the hub is still there.
RunClientTask_Unretained ==
  /\ ~crashed
  /\ clientQueue # <<>>
  /\ delivered' = WrapperOnChanged(Head(clientQueue).wrapper, Head(clientQueue),
                                   ClientContext, delivered)
  /\ clientQueue' = Tail(clientQueue)
  /\ UNCHANGED <<hubs, relays, handles, dispatcher, storeQueue, lastCall,
                 nChanges, crashed, emitted, requested, dropSeq>>

\* The client's context runs the task at the head of its queue: the bound
\* SubscriptionWrapper::OnChanged runs if the weak pointer is still valid and
\* is dropped otherwise.
RunClientTask ==
  /\ ~crashed
  /\ clientQueue # <<>>
  /\ LET t == Head(clientQueue) IN
     delivered' = IF hubs[t.wrapper].alive
                  THEN WrapperOnChanged(t.wrapper, t, ClientContext, delivered)
                  ELSE delivered
  /\ clientQueue' = Tail(clientQueue)
  /\ UNCHANGED <<hubs, relays, handles, dispatcher, storeQueue, lastCall,
                 nChanges, crashed, emitted, requested, dropSeq>>

\* ------------------------------------------------------ store's context
\* The store's context runs the task at the head of its queue: a bound
\* NestedSubscription::Subscribe (whose reference to the relay is released
\* when the task is done) or a posted destruction of a relay.
RunStoreTask ==
  /\ ~crashed
  /\ storeQueue # <<>>
  /\ LET t == Head(storeQueue)
         done == IF t.type = "Subscribe"
                 THEN LET n == NestedSubscribe(relays, dispatcher, t.relay,
                                               t.mode, t.url, t.name)
                      IN Release(n.relays, Tail(storeQueue), n.dispatcher,
                                 t.relay, StoreContext)
                 ELSE LET d == DestroyRelay(relays, dispatcher, t.relay,
                                            StoreContext)
                      IN [relays |-> d.relays, storeQueue |-> Tail(storeQueue),
                          dispatcher |-> d.dispatcher]
     IN /\ relays' = done.relays
        /\ storeQueue' = done.storeQueue
        /\ dispatcher' = done.dispatcher
  /\ UNCHANGED <<hubs, handles, clientQueue, lastCall, nChanges, crashed,
                 emitted, delivered, requested, dropSeq>>

\* The store changes cookie (url, name) for the given cause and its dispatcher
\* runs the callback of every matching registration.
CookieChange(url, name, cause) ==
  /\ ~crashed
  /\ nChanges < MaxChanges
  /\ Len(relays) + nChanges < MaxOps
  /\ LET acc == DispatchChange(1, [url |-> url, name |-> name, cause |-> cause],
                               [clientQueue |-> clientQueue,
                                delivered |-> delivered, emitted |-> emitted])
     IN /\ nChanges' = IF acc.emitted = emitted THEN nChanges ELSE nChanges + 1
        /\ clientQueue' = acc.clientQueue
        /\ delivered' = acc.delivered
        /\ emitted' = acc.emitted
  /\ UNCHANGED <<hubs, relays, handles, dispatcher, storeQueue, lastCall,
                 crashed, requested, dropSeq>>

\* A second SubscriptionWrapper::Subscribe on an existing hub h.
SecondSubscribe(h, mode, url, name, dcheck_is_on) ==
  /\ ~crashed
  /\ Len(relays) < MaxSubs
  /\ Len(relays) + nChanges < MaxOps
  /\ lastCall' = [call |-> "Subscribe",
                  handle |-> IF DcheckFails(hubs, h, dcheck_is_on) THEN NullHandle
                             ELSE Len(handles) + 1]
  /\ requested' = IF DcheckFails(hubs, h, dcheck_is_on) THEN requested
                  ELSE Append(requested, [call |-> "Subscribe", mode |-> mode,
                                          url |-> url, name |-> name,
                                          dcheck_is_on |-> dcheck_is_on])
  /\ Subscribe(hubs, h, mode, url, name, dcheck_is_on)
  /\ UNCHANGED <<clientQueue, nChanges>>

\* A holder of a reference to relay r (the hub's nested_subscription_, the
\* callback bound for the store) lets it go in a step on context ctx, once no
\* posted Subscribe is left to hold one.
ReleaseReference(r, ctx) ==
  /\ ~crashed
  /\ relays[r].alive
  /\ relays[r].refs > 0
  /\ \A i \in 1..Len(storeQueue) :
       ~(storeQueue[i].type = "Subscribe" /\ storeQueue[i].relay = r)
  /\ LET rel == Release(relays, storeQueue, dispatcher, r, ctx)
     IN /\ relays' = rel.relays
        /\ storeQueue' = rel.storeQueue
        /\ dispatcher' = rel.dispatcher
  /\ UNCHANGED <<hubs, handles, clientQueue, lastCall, nChanges, crashed,
                 emitted, delivered, requested, dropSeq>>

\* SubscriptionWrapper::OnUnsubscribe is run on hub h, on the client's context.
RunOnUnsubscribe(h) ==
  /\ ~crashed
  /\ hubs[h].alive
  /\ LET un == OnUnsubscribe(hubs, h, relays, storeQueue, dispatcher)
     IN /\ hubs' = un.hubs
        /\ relays' = un.relays
        /\ storeQueue' = un.storeQueue
        /\ dispatcher' = un.dispatcher
  /\ UNCHANGED <<handles, clientQueue, lastCall, nChanges, crashed, emitted,
                 delivered, requested, dropSeq>>

\* ------------------------------------------------------- specifications
Next ==
  \/ \E url \in WatchedUrls, name \in WatchedNames, dcheck_is_on \in BOOLEAN :
       AddCallbackForCookie(url, name, dcheck_is_on)
  \/ \E url \in WatchedUrls, dcheck_is_on \in BOOLEAN :
       AddCallbackForUrl(url, dcheck_is_on)
  \/ AddCallbackForAllChanges
  \/ \E s \in 1..Len(handles) : DropHandle(s)
  \/ RunClientTask
  \/ RunStoreTask
  \/ \E ev \in Changes : CookieChange(ev.url, ev.name, ev.cause)

Spec == Init /\ [][Next]_vars

\* Both task runners run every task posted to them.
FairSpec == Spec /\ WF_vars(RunClientTask) /\ WF_vars(RunStoreTask)

\* The facade's program plus direct second calls of Subscribe on a hub.
NextResubscribe ==
  \/ Next
  \/ \E h \in 1..Len(hubs), mode \in Modes, url \in WatchedUrls,
          name \in WatchedNames, dcheck_is_on \in BOOLEAN :
       SecondSubscribe(h, mode, url, name, dcheck_is_on)

SpecResubscribe == Init /\ [][NextResubscribe]_vars

\* The relays' lifetime: the calls that create relays, the drops of their
\* handles, the store's task queue, and releases of the relays' references
\* from either context.
NextRelease ==
  \/ \E url \in WatchedUrls, name \in WatchedNames, dcheck_is_on \in BOOLEAN :
       AddCallbackForCookie(url, name, dcheck_is_on)
  \/ \E url \in WatchedUrls, dcheck_is_on \in BOOLEAN :
       AddCallbackForUrl(url, dcheck_is_on)
  \/ \E s \in 1..Len(handles) : DropHandle(s)
  \/ RunStoreTask
  \/ \E r \in 1..Len(relays), ctx \in {ClientContext, StoreContext} :
       ReleaseReference(r, ctx)

SpecRelease == Init /\ [][NextRelease]_vars

\* Subscriptions whose handles are kept, the two task queues, the store's
\* changes, and OnUnsubscribe run on the hubs.
NextUnsubscribe ==
  \/ \E url \in WatchedUrls, name \in WatchedNames, dcheck_is_on \in BOOLEAN :
       AddCallbackForCookie(url, name, dcheck_is_on)
  \/ \E url \in WatchedUrls, dcheck_is_on \in BOOLEAN :
       AddCallbackForUrl(url, dcheck_is_on)
  \/ RunClientTask
  \/ RunStoreTask
  \/ \E ev \in Changes : CookieChange(ev.url, ev.name, ev.cause)
  \/ \E h \in 1..Len(hubs) : RunOnUnsubscribe(h)

SpecUnsubscribe == Init /\ [][NextUnsubscribe]_vars

\* --------------------------------------------------------------- claims
Subscriptions == 1..Len(relays)

\* The invocations of callback s, and the event an invocation carries.
Invocations(s) == {delivered[s][k] : k \in 1..Len(delivered[s])}
Payload(d) == [url |-> d.cookie.url, name |-> d.cookie.name, cause |-> d.cause]

\* How often callback s was invoked for the i-th event handed to relay s.
Times(s, i) ==
  Cardinality({k \in 1..Len(delivered[s]) :
                 delivered[s][k].relay = s /\ delivered[s][k].seq = i})

ByKey(s) == requested[s].call = "AddCallbackForCookie"
ByUrl(s) == requested[s].call = "AddCallbackForUrl"

\* Every invocation of a by-key subscription's callback carries an event the
\* store handed to its relay, unaltered, and no event is carried twice.
C1_NoneAlteredOrDuplicated ==
  \A s \in Subscriptions :
    ByKey(s) =>
      \A d \in Invocations(s) :
        /\ d.relay = s
        /\ d.seq \in 1..Len(emitted[s])
        /\ Payload(d) = emitted[s][d.seq]
        /\ Times(s, d.seq) = 1

\* Every by-key subscription whose handle is held has had exactly one
\* invocation for each event the store handed to its relay.
C1_AllDelivered ==
  \A s \in Subscriptions :
    (ByKey(s) /\ handles[s].held) =>
      \A i \in 1..Len(emitted[s]) : Times(s, i) = 1

\* C1: for a subscription by key whose handle is kept, every event the store
\* hands to the relay's registration leads, with both task queues run fairly,
\* to exactly one invocation of the caller's callback with the same
\* (cookie, cause): none is lost, duplicated or altered.  (Events and
\* invocations are never taken back, so "again and again all delivered" is
\* "each one eventually delivered".)
C1_Theorem ==
  /\ []C1_NoneAlteredOrDuplicated
  /\ []<>C1_AllDelivered

C1_Witness ==
  \E s \in Subscriptions :
    /\ ByKey(s)
    /\ handles[s].held
    /\ Len(emitted[s]) >= 2
    /\ emitted[s][1].cause # emitted[s][2].cause
    /\ \A i \in 1..Len(emitted[s]) : Times(s, i) = 1

\* C2: the callback of one subscription is invoked with the events in the
\* order in which the store handed them to the relay.
C2_Theorem ==
  \A s \in Subscriptions :
    \A j, k \in 1..Len(delivered[s]) :
      (j < k /\ delivered[s][j].relay = delivered[s][k].relay)
        => delivered[s][j].seq < delivered[s][k].seq

C2_Witness ==
  \E s \in Subscriptions :
    /\ ByUrl(s)
    /\ Len(delivered[s]) >= 2
    /\ delivered[s][1].cookie.name # delivered[s][2].cookie.name

\* C3: a handle dropped before the store handed any event to its relay means
\* the callback is never invoked, whatever the store emits afterwards.
C3_Theorem ==
  \A s \in Subscriptions : dropSeq[s] = <<0>> => delivered[s] = <<>>

C3_Witness ==
  \E s \in Subscriptions :
    /\ dropSeq[s] = <<0>>
    /\ Len(emitted[s]) > 0
    /\ clientQueue = <<>>

\* Invocations of callback s made when the caller no longer held the handle.
AfterDrop(s) ==
  Cardinality({k \in 1..Len(delivered[s]) : ~delivered[s][k].held})

\* C4: after the handle is dropped the callback is invoked at most once more,
\* however many notifications were in flight.
C4_Theorem == \A s \in Subscriptions : AfterDrop(s) <= 1

\* Dropped with two or more notifications in flight, all of which have run.
C4_Witness ==
  \E s \in Subscriptions :
    /\ dropSeq[s] # <<>>
    /\ dropSeq[s][1] - Len(delivered[s]) >= 2
    /\ clientQueue = <<>>

\* C5 as claimed: once the handle is dropped the hub's registry is empty and
\* the hub is destroyed.
C5_Claim ==
  \A s \in Subscriptions :
    ~handles[s].held =>
      /\ CallbackListEmpty(hubs[handles[s].list_].callback_list_)
      /\ ~hubs[handles[s].list_].alive

\* C6 as claimed: after the drop, once both contexts have run every task
\* posted to them, the relay is destroyed and the store holds no registration
\* for it.
C6_Claim ==
  \A s \in Subscriptions :
    (~handles[s].held /\ storeQueue = <<>> /\ clientQueue = <<>>) =>
      /\ ~relays[s].alive
      /\ \A i \in 1..Len(dispatcher) :
           dispatcher[i].callback = s => ~dispatcher[i].registered

\* C7: the caller's callback is invoked only by steps of the client's context.
C7_Theorem ==
  \A s \in Subscriptions : \A d \in Invocations(s) : d.ctx = ClientContext

C7_Witness ==
  \E s \in Subscriptions : \E d \in Invocations(s) : d.ctx = ClientContext

\* C8: AddCallbackForAllChanges returns the null result and changes nothing:
\* no hub, no relay, no handle, no posted task, no store registration, no
\* invocation.
C8_Theorem ==
  [][(lastCall'.call = "AddCallbackForAllChanges" /\ lastCall' # lastCall)
       => /\ lastCall'.handle = NullHandle
          /\ UNCHANGED <<hubs, relays, handles, dispatcher, storeQueue,
                         clientQueue, delivered, emitted, crashed>>]_vars

C8_Witness ==
  /\ lastCall.call = "AddCallbackForAllChanges"
  /\ lastCall.handle = NullHandle
  /\ Len(hubs) > 0
  /\ dispatcher # <<>>

\* The relay the first Subscribe call on hub h made.
FirstRelay(h) ==
  CHOOSE s \in Subscriptions :
    /\ relays[s].subscription_wrapper_ = h
    /\ \A t \in 1..(s - 1) : relays[t].subscription_wrapper_ # h

\* Every second call of Subscribe on hub h so far was made in a build that
\* has the DCHECK compiled in.
AssertingBuild(h) ==
  \A s \in Subscriptions :
    (relays[s].subscription_wrapper_ = h /\ requested[s].call = "Subscribe")
      => requested[s].dcheck_is_on

\* C9 as claimed, for builds that assert: whatever second calls of Subscribe a
\* hub has seen, it holds the relay of the first call and no callback
\* registration but the first call's.
C9_Claim ==
  \A h \in 1..Len(hubs) :
    AssertingBuild(h) =>
    /\ hubs[h].nested_subscription_ = FirstRelay(h)
    /\ \A i \in 1..Len(hubs[h].callback_list_) :
         hubs[h].callback_list_[i] = FirstRelay(h)

\* C10: AddCallbackForCookie registers key-scoped with the given (url, key)
\* and its callback sees changes of that cookie only; AddCallbackForUrl
\* registers URL-scoped with the given url and its callback sees the changes
\* under that url, whatever their name.
C10_Theorem ==
  /\ \A i \in 1..Len(dispatcher) :
       LET reg == dispatcher[i]
           q == requested[reg.callback] IN
       /\ ByKey(reg.callback) =>
            reg.kind = "cookie" /\ reg.url = q.url /\ reg.name = q.name
       /\ ByUrl(reg.callback) => reg.kind = "url" /\ reg.url = q.url
  /\ \A s \in Subscriptions :
       /\ \A i \in 1..Len(emitted[s]) :
            /\ emitted[s][i].url = requested[s].url
            /\ ByKey(s) => emitted[s][i].name = requested[s].name
       /\ \A d \in Invocations(s) :
            /\ d.cookie.url = requested[s].url
            /\ ByKey(s) => d.cookie.name = requested[s].name

C10_Witness ==
  \E s \in Subscriptions :
    /\ ByUrl(s)
    /\ {d.cookie.name : d \in Invocations(s)} = {"a", "b"}
    /\ \E t \in Subscriptions : ByKey(t) /\ Invocations(t) # {}

\* A step of the store's context that runs the task at the head of its queue.
StoreTaskStep == storeQueue # <<>> /\ storeQueue' = Tail(storeQueue)

\* The relays whose subscription_ member differs before and after the step.
SubscriptionChanged ==
  {r \in Subscriptions : relays'[r].subscription_ # relays[r].subscription_}

\* C11: the store's registrations and the relays' subscription_ members change
\* only in steps in which the store's context runs a task of its queue; no
\* facade call and no drop of a handle registers or unregisters.
C11_Theorem ==
  [][(dispatcher' # dispatcher \/ SubscriptionChanged # {})
       => StoreTaskStep /\ UNCHANGED <<hubs, handles, lastCall>>]_vars

\* A registration made for a subscription whose handle has since been dropped.
C11_Witness ==
  \E s \in Subscriptions :
    /\ ~handles[s].held
    /\ relays[s].subscription_ # NoSubscription
    /\ dispatcher[relays[s].subscription_].registered
    /\ dispatcher[relays[s].subscription_].callback = s

\* A posted destruction of relay r waits in the store's queue.
DeleteSoonPending(r) ==
  \E i \in 1..Len(storeQueue) :
    storeQueue[i].type = "DeleteSoon" /\ storeQueue[i].relay = r

\* C12: a relay is destroyed by a step of the store's context only, whichever
\* context released its last reference: a relay that has lost its last
\* reference and is not yet destroyed has its destruction posted to the
\* store's queue, and every destroyed relay was destroyed on the store's
\* context.
C12_Theorem ==
  \A r \in Subscriptions :
    /\ relays[r].alive => relays[r].destroyed_on = NoContext
    /\ ~relays[r].alive => relays[r].destroyed_on = StoreContext
    /\ (relays[r].alive /\ relays[r].refs = 0) => DeleteSoonPending(r)

\* One relay whose last reference went on the client's context, its
\* destruction still waiting, next to one already destroyed.
C12_Witness ==
  \E r, q \in Subscriptions :
    /\ relays[r].alive
    /\ relays[r].refs = 0
    /\ DeleteSoonPending(r)
    /\ ~relays[q].alive
    /\ relays[q].refs = 0
    /\ ~DeleteSoonPending(q)

\* A step of the client's context that runs the task at the head of its queue.
ClientTaskStep == clientQueue # <<>> /\ clientQueue' = Tail(clientQueue)

\* C13: when the client's context runs a notification task whose hub has been
\* destroyed, the step takes the task off the queue and does nothing else: no
\* callback is invoked, the hub stays destroyed and untouched, nothing fails,
\* and the relays, the handles and the store are as before.
C13_Theorem ==
  [][(ClientTaskStep /\ ~hubs[Head(clientQueue).wrapper].alive)
       => UNCHANGED <<hubs, relays, handles, dispatcher, storeQueue, lastCall,
                      nChanges, crashed, emitted, delivered, requested,
                      dropSeq>>]_vars

\* A subscription with its handle kept and its hub destroyed, and an event of
\* its relay whose task has run without an invocation.
C13_Witness ==
  \E s \in Subscriptions :
    /\ handles[s].held
    /\ ~hubs[relays[s].subscription_wrapper_].alive
    /\ Len(emitted[s]) > Len(delivered[s])
    /\ \A i \in 1..Len(clientQueue) : clientQueue[i].relay # s

\* The Subscribe task posted for relay r waits in the store's queue.
SubscribePending(r) ==
  \E i \in 1..Len(storeQueue) :
    storeQueue[i].type = "Subscribe" /\ storeQueue[i].relay = r

\* The notification tasks of relay r waiting in the client's queue.
InFlight(r) == {i \in 1..Len(clientQueue) : clientQueue[i].relay = r}

\* C14: as long as the Subscribe task posted for a subscription has not run,
\* the store has no registration for it and hands its relay no event, no
\* notification of it is in flight and its callback has not been invoked:
\* what the store changes in the meantime does not reach the subscription.
C14_Theorem ==
  \A s \in Subscriptions :
    SubscribePending(s) =>
      /\ relays[s].subscription_ = NoSubscription
      /\ \A i \in 1..Len(dispatcher) : dispatcher[i].callback # s
      /\ emitted[s] = <<>>
      /\ InFlight(s) = {}
      /\ delivered[s] = <<>>

\* Two subscriptions to the same cookie, the second one's Subscribe task still
\* waiting: the store has notified the first of two changes, one of them
\* delivered and one in flight, and the second of none.
C14_Witness ==
  \E s, t \in Subscriptions :
    /\ SubscribePending(s)
    /\ ~SubscribePending(t)
    /\ requested[s] = requested[t]
    /\ Len(emitted[t]) = 2
    /\ Len(delivered[t]) = 1
    /\ InFlight(t) # {}
    /\ emitted[s] = <<>>
    /\ delivered[s] = <<>>

\* The Subscribe tasks waiting in the store's queue for relays of hub h, and
\* the registrations the store was ever asked to make for them.
PendingFor(h) ==
  {i \in 1..Len(storeQueue) :
     /\ storeQueue[i].type = "Subscribe"
     /\ relays[storeQueue[i].relay].subscription_wrapper_ = h}
RegistrationsFor(h) ==
  {i \in 1..Len(dispatcher) :
     relays[dispatcher[i].callback].subscription_wrapper_ = h}

\* C15: every hub an AddCallbackForCookie or AddCallbackForUrl call made has
\* one relay, and for it either one Subscribe task waiting and no registration
\* with the store, or no such task and exactly one registration: at no time
\* has the store been asked for a second one on the hub's behalf.
C15_Theorem ==
  \A h \in 1..Len(hubs) :
    /\ Cardinality({r \in Subscriptions : relays[r].subscription_wrapper_ = h}) = 1
    /\ Cardinality(PendingFor(h)) + Cardinality(RegistrationsFor(h)) = 1

\* Two hubs, each with its one registration made, the store having notified
\* both and one handle dropped since.
C15_Witness ==
  /\ Len(hubs) = 2
  /\ \A h \in 1..Len(hubs) :
       /\ PendingFor(h) = {}
       /\ Cardinality(RegistrationsFor(h)) = 1
  /\ \A s \in Subscriptions : emitted[s] # <<>>
  /\ \E s \in Subscriptions : ~handles[s].held

\* The store holds a registration whose callback is OnChanged on relay r.
Registered(r) ==
  \E i \in 1..Len(dispatcher) :
    dispatcher[i].callback = r /\ dispatcher[i].registered

\* C16: a relay that a task waiting in the store's queue will run on, or whose
\* OnChanged the store can still call, has not been destroyed, whether or not
\* its handle has been dropped in the meantime.
C16_Theorem ==
  \A r \in Subscriptions :
    (SubscribePending(r) \/ Registered(r) \/ DeleteSoonPending(r))
      => relays[r].alive

\* One handle dropped while its Subscribe task was still waiting, and another
\* dropped after the store registered its relay.
C16_Witness ==
  \E r, q \in Subscriptions :
    /\ ~handles[r].held
    /\ SubscribePending(r)
    /\ relays[r].alive
    /\ ~handles[q].held
    /\ Registered(q)
    /\ relays[q].alive

\* Subscription s has a hub and a relay of its own, wired to each other and
\* to nothing else, and its callback is in its own hub's list while its
\* handle is held and in no other list ever.
OwnHubAndRelay ==
  /\ Len(hubs) = Len(relays)
  /\ Len(handles) = Len(relays)
  /\ \A s \in Subscriptions :
       /\ handles[s].list_ = s
       /\ hubs[s].nested_subscription_ = s
       /\ relays[s].subscription_wrapper_ = s
       /\ hubs[s].callback_list_ = IF handles[s].held THEN <<s>> ELSE <<>>

\* Every notification in flight and every invocation belongs to an event the
\* store handed to the subscription's own relay.
OwnEventsOnly ==
  /\ \A i \in 1..Len(clientQueue) :
       clientQueue[i].wrapper = relays[clientQueue[i].relay].subscription_wrapper_
  /\ \A s \in Subscriptions : \A d \in Invocations(s) :
       d.relay = s /\ d.seq \in 1..Len(emitted[s])

\* A step that drops the handle of s leaves every other subscription as it
\* was: hub, relay, handle, registration, notifications in flight and
\* invocations.
DropLeavesOthers ==
  \A s \in Subscriptions :
    (handles[s].held /\ ~handles'[s].held) =>
      /\ dispatcher' = dispatcher
      /\ clientQueue' = clientQueue
      /\ storeQueue' = storeQueue
      /\ \A t \in Subscriptions \ {s} :
           /\ hubs'[relays[t].subscription_wrapper_]
                = hubs[relays[t].subscription_wrapper_]
           /\ relays'[t] = relays[t]
           /\ handles'[t] = handles[t]
           /\ delivered'[t] = delivered[t]

\* C17: the subscriptions made by separate AddCallbackForCookie and
\* AddCallbackForUrl calls are independent: each has its own hub and relay, a
\* callback is invoked only for events handed to its own relay, and dropping
\* one handle changes nothing of any other subscription.
C17_Theorem ==
  /\ [](OwnHubAndRelay /\ OwnEventsOnly)
  /\ [][DropLeavesOthers]_vars

\* Two subscriptions to the same cookie or url: the first one's handle was
\* dropped before the store notified anything, and every change notified
\* since has been delivered to the second and none to the first.
C17_Witness ==
  \E s, t \in Subscriptions :
    /\ s < t
    /\ requested[s] = requested[t]
    /\ dropSeq[s] = <<0>>
    /\ Len(emitted[s]) >= 1
    /\ Len(emitted[t]) = Len(emitted[s])
    /\ delivered[s] = <<>>
    /\ handles[t].held
    /\ Len(delivered[t]) = Len(emitted[t])
    /\ relays[s].alive /\ relays[t].alive

====
